---- MODULE Spec2Model ----
(***************************************************************************)
(* Model of scripts/split_route_gu_wan_scenes.py: load_route_json,         *)
(* write_scene_file and main, run against a small filesystem.              *)
(*                                                                         *)
(* A string is a sequence of chunks (opaque substrings); "/" is the path   *)
(* separator chunk.  A file holds text: a sequence of tokens.  A JSON      *)
(* value is tagged: [t |-> "str" | "arr" | "obj" | "null", v |-> ...];     *)
(* an object's v is a sequence of [k, v] pairs in insertion order, each k   *)
(* a string.                                                               *)
(***************************************************************************)
EXTENDS Integers, Sequences, FiniteSets, TLC

\* ------------------------------------------------------------------ bounds
MaxScenes == 2      \* longest scenes list of the route document
MaxRuns == 2        \* how many times main() is run in a row

\* ------------------------------------------------------------------ JSON text
QUOTE == "\""
BSL == "\\"
LF == "<LF>"            \* a raw line feed
IND == "<4SP>"          \* one indentation unit: four spaces
SPC == "<SP>"           \* one space
NONASCII == "<U+00E9>"   \* a character outside ASCII

IsWs(tok) == tok \in {LF, IND, SPC}

JStr(s) == [t |-> "str", v |-> s]
JArr(a) == [t |-> "arr", v |-> a]
JObj(p) == [t |-> "obj", v |-> p]
None == [t |-> "null", v |-> <<>>]

RECURSIVE Repeat(_, _)
Repeat(tok, n) == IF n = 0 THEN <<>> ELSE <<tok>> \o Repeat(tok, n - 1)

EscapeChunkRaw(c) == <<c>>

\* json.encoder with ensure_ascii=False: only quote, backslash and control
\* characters are escaped; non-ASCII chunks are written literally.
EscapeChunk(c) ==
    IF c = QUOTE THEN <<BSL, QUOTE>>
    ELSE IF c = BSL THEN <<BSL, BSL>>
    ELSE IF c = LF THEN <<BSL, "n">>
    ELSE <<c>>

RECURSIVE EncodeChunks(_)
EncodeChunks(s) ==
    IF s = <<>> THEN <<>> ELSE EscapeChunk(Head(s)) \o EncodeChunks(Tail(s))

EncodeString(s) == <<QUOTE>> \o EncodeChunks(s) \o <<QUOTE>>

\* json.dump(value, out, ensure_ascii=False, indent=4) at nesting level lvl:
\* items one per line, item separator ",", key separator ": ".
RECURSIVE Encode(_, _)
RECURSIVE EncodeItems(_, _, _)
EncodeItems(val, j, lvl) ==
    LET item == val.v[j]
        body == IF val.t = "obj"
                THEN EncodeString(item.k) \o <<":", SPC>> \o Encode(item.v, lvl)
                ELSE Encode(item, lvl)
        line == <<LF>> \o Repeat(IND, lvl) \o body
    IN IF j = Len(val.v) THEN line
       ELSE line \o <<",">> \o EncodeItems(val, j + 1, lvl)

Encode(val, lvl) ==
    IF val.t = "null" THEN <<"null">>
    ELSE IF val.t = "str" THEN EncodeString(val.v)
    ELSE LET open == IF val.t = "obj" THEN "{" ELSE "["
             close == IF val.t = "obj" THEN "}" ELSE "]"
         IN IF val.v = <<>> THEN <<open, close>>
            ELSE <<open>> \o EncodeItems(val, 1, lvl + 1)
                 \o <<LF>> \o Repeat(IND, lvl) \o <<close>>

JsonDump(val) == Encode(val, 0)

\* ------------------------------------------------------------------ JSON parse
Fail == [ok |-> FALSE, val |-> None, pos |-> 0]
Ok(val, pos) == [ok |-> TRUE, val |-> val, pos |-> pos]

RECURSIVE SkipWs(_, _)
SkipWs(txt, i) ==
    IF i <= Len(txt) /\ IsWs(txt[i]) THEN SkipWs(txt, i + 1) ELSE i

Unescape(c) ==
    IF c = QUOTE THEN QUOTE
    ELSE IF c = BSL THEN BSL
    ELSE IF c = "n" THEN LF
    ELSE IF c = "u00e9" THEN NONASCII
    ELSE ""

\* the body of a string literal, from the token after the opening quote
RECURSIVE ScanString(_, _, _)
ScanString(txt, i, acc) ==
    IF i > Len(txt) THEN Fail
    ELSE IF txt[i] = QUOTE THEN Ok(JStr(acc), i + 1)
    ELSE IF txt[i] = LF THEN Fail
    ELSE IF txt[i] = BSL
         THEN IF i + 1 > Len(txt) \/ Unescape(txt[i + 1]) = "" THEN Fail
              ELSE ScanString(txt, i + 2, Append(acc, Unescape(txt[i + 1])))
    ELSE ScanString(txt, i + 1, Append(acc, txt[i]))

\* dict semantics: a repeated key keeps its position and takes the new value
RECURSIVE SetKey(_, _, _)
SetKey(pairs, k, v) ==
    IF pairs = <<>> THEN <<[k |-> k, v |-> v]>>
    ELSE IF Head(pairs).k = k THEN <<[k |-> k, v |-> v]>> \o Tail(pairs)
    ELSE <<Head(pairs)>> \o SetKey(Tail(pairs), k, v)

RECURSIVE ParseValue(_, _)
RECURSIVE ParseItems(_, _, _, _)
\* the items of an array (isObj = FALSE) or object, i at the first item
ParseItems(txt, i, isObj, acc) ==
    LET i1 == SkipWs(txt, i)
        key == IF isObj /\ i1 <= Len(txt) /\ txt[i1] = QUOTE
               THEN ScanString(txt, i1 + 1, <<>>) ELSE Fail
        i2 == IF isObj THEN SkipWs(txt, key.pos) ELSE i1
        colonOk == ~isObj \/ (key.ok /\ i2 <= Len(txt) /\ txt[i2] = ":")
        item == IF colonOk THEN ParseValue(txt, IF isObj THEN i2 + 1 ELSE i2)
                ELSE Fail
        i3 == SkipWs(txt, item.pos)
        acc2 == IF isObj THEN SetKey(acc, key.val.v, item.val)
                ELSE Append(acc, item.val)
    IN IF ~item.ok \/ i3 > Len(txt) THEN Fail
       ELSE IF txt[i3] = "," THEN ParseItems(txt, i3 + 1, isObj, acc2)
       ELSE IF txt[i3] = (IF isObj THEN "}" ELSE "]")
            THEN Ok(IF isObj THEN JObj(acc2) ELSE JArr(acc2), i3 + 1)
       ELSE Fail

ParseValue(txt, i) ==
    LET i1 == SkipWs(txt, i)
    IN IF i1 > Len(txt) THEN Fail
       ELSE IF txt[i1] = "null" THEN Ok(None, i1 + 1)
       ELSE IF txt[i1] = QUOTE THEN ScanString(txt, i1 + 1, <<>>)
       ELSE IF txt[i1] \in {"{", "["}
            THEN LET isObj == txt[i1] = "{"
                     i2 == SkipWs(txt, i1 + 1)
                 IN IF i2 <= Len(txt) /\ txt[i2] = (IF isObj THEN "}" ELSE "]")
                    THEN Ok(IF isObj THEN JObj(<<>>) ELSE JArr(<<>>), i2 + 1)
                    ELSE ParseItems(txt, i2, isObj, <<>>)
       ELSE Fail

\* json.load: one value, then only whitespace up to the end of the text
JsonLoad(txt) ==
    LET r == ParseValue(txt, 1)
    IN IF r.ok /\ SkipWs(txt, r.pos) = Len(txt) + 1 THEN r ELSE Fail

\* dict.get(key, default)
RECURSIVE GetPairs(_, _, _)
GetPairs(pairs, k, default) ==
    IF pairs = <<>> THEN default
    ELSE IF Head(pairs).k = k THEN Head(pairs).v
    ELSE GetPairs(Tail(pairs), k, default)

Get(obj, k, default) == GetPairs(obj.v, k, default)

\* Python truthiness of a JSON value: None, "", [] and {} are falsy
Truthy(val) == val.t # "null" /\ val.v # <<>>

\* ------------------------------------------------------------------ paths
SEP == "/"

\* posixpath.join for two arguments
Join(a, b) ==
    IF b # <<>> /\ Head(b) = SEP THEN b
    ELSE IF a = <<>> \/ a[Len(a)] = SEP THEN a \o b
    ELSE a \o <<SEP>> \o b

\* path.split("/"): the components, each a sequence of chunks
RECURSIVE SplitFrom(_, _, _)
SplitFrom(path, cur, acc) ==
    IF path = <<>> THEN Append(acc, cur)
    ELSE IF Head(path) = SEP THEN SplitFrom(Tail(path), <<>>, Append(acc, cur))
    ELSE SplitFrom(Tail(path), Append(cur, Head(path)), acc)

Components(path) == SplitFrom(path, <<>>, <<>>)

Parent(dir) == IF dir = <<>> THEN <<>> ELSE SubSeq(dir, 1, Len(dir) - 1)

IsDots(c) == c \in {<<>>, <<".">>, <<"..">>}

\* the kernel's walk of an absolute path: every component but the last must
\* lead to an existing directory; "." stays, ".." goes to the parent
RECURSIVE Walk(_, _, _)
Walk(comps, cur, ds) ==
    IF Len(comps) = 1 THEN [ok |-> TRUE, dir |-> cur, name |-> comps[1]]
    ELSE LET c == Head(comps)
             nxt == IF c \in {<<>>, <<".">>} THEN cur
                    ELSE IF c = <<"..">> THEN Parent(cur)
                    ELSE Append(cur, c)
         IN IF nxt \in ds THEN Walk(Tail(comps), nxt, ds)
            ELSE [ok |-> FALSE, dir |-> <<>>, name |-> <<>>]

\* the file a path names: [ok, key]; not ok when the walk fails or the last
\* component is not a file name
Resolve(path, ds) ==
    LET w == Walk(Components(path), <<>>, ds)
    IN IF w.ok /\ ~IsDots(w.name) /\ Append(w.dir, w.name) \notin ds
       THEN [ok |-> TRUE, key |-> Append(w.dir, w.name)]
       ELSE [ok |-> FALSE, key |-> <<>>]

\* main(): the fixed paths (lines 23-25); __file__ is /proj/scripts/<script>
project_root == <<SEP, "proj">>
route_path == Join(Join(project_root, <<"data">>), <<"route_gu_wan", ".json">>)
output_dir == Join(Join(project_root, <<"data">>), <<"route_gu_wan_scenes">>)

ProjDir == << <<"proj">> >>
DataDir == << <<"proj">>, <<"data">> >>
OutDir == << <<"proj">>, <<"data">>, <<"route_gu_wan_scenes">> >>
SubDir == Append(OutDir, <<"sub">>)
RouteKey == Append(DataDir, <<"route_gu_wan", ".json">>)

\* os.makedirs(path, exist_ok=True) on a path without dots: creates every
\* missing directory from the root down; raises when a component is a file
\* or when the system refuses (denied)
RECURSIVE MakeDirsFrom(_, _, _)
MakeDirsFrom(comps, n, fs) ==
    LET d == SubSeq(comps, 1, n)
    IN IF n > Len(comps) THEN [ok |-> TRUE, fs |-> fs]
       ELSE IF d \in DOMAIN fs.files THEN [ok |-> FALSE, fs |-> fs]
       ELSE MakeDirsFrom(comps, n + 1, [fs EXCEPT !.dirs = @ \cup {d}])

MakeDirs(path, fs, denied) ==
    IF denied THEN [ok |-> FALSE, fs |-> fs]
    ELSE MakeDirsFrom(Tail(Components(path)), 1, fs)

\* ------------------------------------------------------------------ inputs
Hello == <<"hello">>
Tricky == <<"say ", QUOTE, "hi", QUOTE, BSL, NONASCII, LF>>

Scene(id, text) ==
    JObj(<< [k |-> <<"scene_id">>, v |-> JStr(id)], [k |-> <<"text">>, v |-> JStr(text)] >>)
NoIdScene(text) == JObj(<< [k |-> <<"text">>, v |-> JStr(text)] >>)

TraversalId == <<"..", SEP, "route_gu_wan">>

Scenes ==
    { NoIdScene(Hello), Scene(<<>>, Hello),
      Scene(<<"s1">>, Hello), Scene(<<"s1">>, Tricky), Scene(<<"s2">>, <<NONASCII, "C:", BSL, "n">>),
      Scene(<<".", SEP, "s1">>, <<"alias">>),
      Scene(TraversalId, Hello),
      Scene(<<"sub", SEP, "s1">>, Hello),
      Scene(<<SEP, "abs">>, Hello) }

RECURSIVE SeqsUpTo(_, _)
SeqsUpTo(S, n) ==
    IF n = 0 THEN {<<>>}
    ELSE LET shorter == SeqsUpTo(S, n - 1)
         IN shorter \cup {Append(q, x) : q \in {r \in shorter : Len(r) = n - 1}, x \in S}

RouteDoc(list) ==
    JObj(<< [k |-> <<"title">>, v |-> JStr(<<"gu wan">>)], [k |-> <<"scenes">>, v |-> JArr(list)] >>)

\* what the input file may hold: a route document, an object without the
\* scenes key, or text that is not JSON
InputTexts ==
    {JsonDump(RouteDoc(list)) : list \in SeqsUpTo(Scenes, MaxScenes)}
    \cup {JsonDump(JObj(<<>>)), <<"{", "not json">>}

\* what earlier runs may have left: a scene file, and a truncated one
Stale == JsonDump(Scene(<<"s1">>, <<"old">>)) \o <<LF>>
Truncated == SubSeq(Stale, 1, Len(Stale) \div 2)

\* the output side of the filesystem before the first run
OutStates == {"nodata", "absent", "empty", "stale", "file"}

InitDirs(out) ==
    {<<>>, ProjDir}
    \cup (IF out # "nodata" THEN {DataDir} ELSE {})
    \cup (IF out \in {"empty", "stale"} THEN {OutDir} ELSE {})
    \cup (IF out = "stale" THEN {SubDir} ELSE {})

InitFiles(out) ==
    IF out = "stale"
    THEN (Append(OutDir, <<"s1", ".json">>) :> Stale) @@ (Append(OutDir, <<"old", ".json">>) :> Truncated)
    ELSE IF out = "file" THEN (OutDir :> <<"plain">>)
    ELSE << >>

\* ------------------------------------------------------------------ state
VARIABLES
    files,          \* filesystem: file key -> text
    dirs,           \* filesystem: the directories that exist
    pc,             \* "idle" | "loop" | "done" | "aborted": where main() is
    scenes,         \* main: the list extracted from the route document
    i,              \* main: position of the for loop (1-based)
    written_paths,  \* main: the non-empty paths collected so far
    p,              \* main: the last value write_scene_file returned
    stdout,         \* the lines this run printed, as [count, dir]
    err,            \* the exception that ended this run, "none" if none
    runs,           \* how many runs of main() were started
    reads,          \* how many times this run opened the route file
    calls,          \* the scenes this run passed to write_scene_file
    start,          \* the filesystem when this run started
    prev            \* how the previous run ended

vars == <<files, dirs, pc, scenes, i, written_paths, p, stdout, err, runs,
          reads, calls, start, prev>>

FS == [files |-> files, dirs |-> dirs]

NoRun == [pc |-> "idle", files |-> <<>>, dirs |-> {}, stdout |-> <<>>,
          start |-> [files |-> <<>>, dirs |-> {}]]

Init ==
    /\ \E out \in OutStates :
         /\ dirs = InitDirs(out)
         /\ \/ files = InitFiles(out)
            \/ /\ out # "nodata"
               /\ \E txt \in InputTexts : files = (RouteKey :> txt) @@ InitFiles(out)
    /\ pc = "idle"
    /\ scenes = <<>>
    /\ i = 1
    /\ written_paths = <<>>
    /\ p = <<>>
    /\ stdout = <<>>
    /\ err = "none"
    /\ runs = 0
    /\ reads = 0
    /\ calls = <<>>
    /\ start = [files |-> files, dirs |-> dirs]
    /\ prev = NoRun

\* ------------------------------------------------------------------ the code
LoadOrEmpty(path, fs) ==
    LET at == Resolve(path, fs.dirs)
    IN IF ~at.ok \/ at.key \notin DOMAIN fs.files
       THEN [raised |-> "none", val |-> JObj(<<>>)]
       ELSE LET r == JsonLoad(fs.files[at.key])
            IN IF r.ok THEN [raised |-> "none", val |-> r.val]
               ELSE [raised |-> "none", val |-> JObj(<<>>)]

\* load_route_json (lines 5-7): open for reading, json.load
load_route_json(path, fs) ==
    LET at == Resolve(path, fs.dirs)
    IN IF ~at.ok \/ at.key \notin DOMAIN fs.files
       THEN [raised |-> "FileNotFoundError", val |-> None]
       ELSE LET r == JsonLoad(fs.files[at.key])
            IN IF r.ok THEN [raised |-> "none", val |-> r.val]
               ELSE [raised |-> "JSONDecodeError", val |-> None]

\* what the environment may do to a write: nothing, refuse the directory,
\* refuse the open, or run out of space with none or half of the text stored
Faults == {"none", "makedirs", "open", "write0", "writeHalf"}

Returned(path, fs) == [raised |-> FALSE, ret |-> path, fs |-> fs]
Raised(fs) == [raised |-> TRUE, ret |-> <<>>, fs |-> fs]

OutPathNoDir(dir, scene_id) == Join(project_root, scene_id.v \o <<".json">>)

OutPathFixed(dir, scene_id) == Join(dir, <<"scene", ".json">>)

\* line 15: os.path.join(output_dir, f"{scene_id}.json")
OutPath(dir, scene_id) == Join(dir, scene_id.v \o <<".json">>)

\* lines 17-18: the JSON text of the scene and one line feed
SceneText(scene) == JsonDump(scene) \o <<LF>>

StoreFileAppend(fs, key, text) ==
    [fs EXCEPT !.files =
        (key :> ((IF key \in DOMAIN @ THEN @[key] ELSE <<>>) \o text)) @@ @]

StoreFileKeep(fs, key, text) ==
    IF key \in DOMAIN fs.files THEN fs
    ELSE [fs EXCEPT !.files = (key :> text) @@ @]

\* line 16, open(out_path, "w"), and the writes: the file holds the text
\* written, whatever it held before
StoreFile(fs, key, text) == [fs EXCEPT !.files = (key :> text) @@ @]

EagerMakedirsWrite(dir, scene, fs, fault) ==
    LET scene_id == Get(scene, <<"scene_id">>, None)
        md == MakeDirs(dir, fs, fault = "makedirs")
        out_path == OutPath(dir, scene_id)
        at == Resolve(out_path, md.fs.dirs)
        text == SceneText(scene)
        stored == IF fault = "write0" THEN <<>>
                  ELSE IF fault = "writeHalf" THEN SubSeq(text, 1, Len(text) \div 2)
                  ELSE text
    IN IF ~md.ok THEN Raised(md.fs)
       ELSE IF ~Truthy(scene_id) THEN Returned(<<>>, md.fs)
       ELSE IF ~at.ok \/ fault = "open" THEN Raised(md.fs)
       ELSE IF fault \in {"write0", "writeHalf"}
            THEN Raised(StoreFile(md.fs, at.key, stored))
       ELSE Returned(out_path, StoreFile(md.fs, at.key, stored))

\* write_scene_file (lines 10-19).  A write that fails after the open leaves
\* the truncated file with none or part of the text.
write_scene_file(dir, scene, fs, fault) ==
    LET scene_id == Get(scene, <<"scene_id">>, None)
        md == MakeDirs(dir, fs, fault = "makedirs")
        out_path == OutPath(dir, scene_id)
        at == Resolve(out_path, md.fs.dirs)
        text == SceneText(scene)
        stored == IF fault = "write0" THEN <<>>
                  ELSE IF fault = "writeHalf" THEN SubSeq(text, 1, Len(text) \div 2)
                  ELSE text
    IN IF ~Truthy(scene_id) THEN Returned(<<>>, fs)
       ELSE IF ~md.ok THEN Raised(md.fs)
       ELSE IF ~at.ok \/ fault = "open" THEN Raised(md.fs)
       ELSE IF fault \in {"write0", "writeHalf"}
            THEN Raised(StoreFile(md.fs, at.key, stored))
       ELSE Returned(out_path, StoreFile(md.fs, at.key, stored))

CollectAlways(written, ret) == Append(written, ret)

\* lines 33-34: if p: written_paths.append(p)
Collect(written, ret) == IF ret # <<>> THEN Append(written, ret) ELSE written

\* line 36: the summary line
Summary(written) == [count |-> Len(written), dir |-> output_dir]

\* main, lines 22-30, when the route loads: a new run starts, the first one
\* or the next one after a run that completed
LoadRoute ==
    /\ pc \in {"idle", "done"}
    /\ runs < MaxRuns
    /\ LET r == load_route_json(route_path, FS)
       IN /\ r.raised = "none"
          /\ r.val.t = "obj"
          /\ scenes' = Get(r.val, <<"scenes">>, JArr(<<>>)).v
    /\ pc' = "loop"
    /\ i' = 1
    /\ written_paths' = <<>>
    /\ p' = <<>>
    /\ stdout' = <<>>
    /\ err' = "none"
    /\ runs' = runs + 1
    /\ reads' = 1
    /\ calls' = <<>>
    /\ start' = FS
    /\ prev' = [pc |-> pc, files |-> files, dirs |-> dirs, stdout |-> stdout,
                start |-> start]
    /\ UNCHANGED <<files, dirs>>

\* main, lines 22-27, when load_route_json raises: the run ends there
LoadRouteRaises ==
    /\ pc \in {"idle", "done"}
    /\ runs < MaxRuns
    /\ LET r == load_route_json(route_path, FS)
       IN /\ r.raised # "none"
          /\ err' = r.raised
    /\ pc' = "aborted"
    /\ scenes' = <<>>
    /\ i' = 1
    /\ written_paths' = <<>>
    /\ p' = <<>>
    /\ stdout' = <<>>
    /\ runs' = runs + 1
    /\ reads' = IF err' = "FileNotFoundError" THEN 0 ELSE 1
    /\ calls' = <<>>
    /\ start' = FS
    /\ prev' = [pc |-> pc, files |-> files, dirs |-> dirs, stdout |-> stdout,
                start |-> start]
    /\ UNCHANGED <<files, dirs>>

\* main, lines 31-34: one iteration of the loop in which the writer returns
WriteScene ==
    /\ pc = "loop"
    /\ i <= Len(scenes)
    /\ \E fault \in Faults :
         LET r == write_scene_file(output_dir, scenes[i], FS, fault)
         IN /\ ~r.raised
            /\ files' = r.fs.files
            /\ dirs' = r.fs.dirs
            /\ p' = r.ret
            /\ written_paths' = Collect(written_paths, r.ret)
    /\ i' = i + 1
    /\ calls' = Append(calls, scenes[i])
    /\ UNCHANGED <<pc, scenes, stdout, err, runs, reads, start, prev>>

WriteSceneRaisesReporting ==
    /\ pc = "loop"
    /\ i <= Len(scenes)
    /\ \E fault \in Faults :
         LET r == write_scene_file(output_dir, scenes[i], FS, fault)
         IN /\ r.raised
            /\ files' = r.fs.files
            /\ dirs' = r.fs.dirs
    /\ pc' = "aborted"
    /\ err' = "OSError"
    /\ calls' = Append(calls, scenes[i])
    /\ stdout' = Append(stdout, Summary(written_paths))
    /\ UNCHANGED <<scenes, i, written_paths, p, runs, reads, start, prev>>

WriteSceneRaisesRollback ==
    /\ pc = "loop"
    /\ i <= Len(scenes)
    /\ \E fault \in Faults :
         write_scene_file(output_dir, scenes[i], FS, fault).raised
    /\ files' = start.files
    /\ dirs' = dirs
    /\ pc' = "aborted"
    /\ err' = "OSError"
    /\ calls' = Append(calls, scenes[i])
    /\ UNCHANGED <<scenes, i, written_paths, p, stdout, runs, reads, start, prev>>

\* main, lines 31-32: the iteration in which the writer raises; nothing in
\* main catches it
WriteSceneRaises ==
    /\ pc = "loop"
    /\ i <= Len(scenes)
    /\ \E fault \in Faults :
         LET r == write_scene_file(output_dir, scenes[i], FS, fault)
         IN /\ r.raised
            /\ files' = r.fs.files
            /\ dirs' = r.fs.dirs
    /\ pc' = "aborted"
    /\ err' = "OSError"
    /\ calls' = Append(calls, scenes[i])
    /\ UNCHANGED <<scenes, i, written_paths, p, stdout, runs, reads, start, prev>>

\* main, line 36, once the list is exhausted
PrintSummary ==
    /\ pc = "loop"
    /\ i > Len(scenes)
    /\ stdout' = Append(stdout, Summary(written_paths))
    /\ pc' = "done"
    /\ UNCHANGED <<files, dirs, scenes, i, written_paths, p, err, runs, reads,
                   calls, start, prev>>

Next ==
    \/ LoadRoute
    \/ LoadRouteRaises
    \/ WriteScene
    \/ WriteSceneRaises
    \/ PrintSummary

Spec == Init /\ [][Next]_vars

\* ------------------------------------------------------------------ claims
HasId(scene) == Truthy(Get(scene, <<"scene_id">>, None))

NumIds(list) == Cardinality({j \in 1..Len(list) : HasId(list[j])})

\* the route file as the filesystem fs holds it
HasRoute(fsFiles) == RouteKey \in DOMAIN fsFiles
RouteLoads(fsFiles) == HasRoute(fsFiles) /\ JsonLoad(fsFiles[RouteKey]).ok

\* the scenes list of the route document this run started on
DocScenes == Get(JsonLoad(start.files[RouteKey]).val, <<"scenes">>, JArr(<<>>)).v

\* <output_dir>/<scene_id>.json and the file it names
Derived(scene) ==
    Join(output_dir, Get(scene, <<"scene_id">>, None).v \o <<".json">>)
FileOf(scene) == Resolve(Derived(scene), dirs)

\* the files the identified scenes of list name
SceneFiles(list) ==
    {FileOf(list[j]).key : j \in {n \in 1..Len(list) : HasId(list[n]) /\ FileOf(list[n]).ok}}

\* the last scene among the first n of list that names the file key
LastFor(list, n, key) ==
    LET js == {j \in 1..n : HasId(list[j]) /\ FileOf(list[j]).ok /\ FileOf(list[j]).key = key}
    IN list[CHOOSE j \in js : \A m \in js : m <= j]

\* the last scene among the first n of list whose scene_id is that of scene
LastWithId(list, n, scene) ==
    LET id == Get(scene, <<"scene_id">>, None)
        js == {j \in 1..n : Get(list[j], <<"scene_id">>, None) = id}
    IN list[CHOOSE j \in js : \A m \in js : m <= j]

Expected(scene) == JsonDump(scene) \o <<LF>>

\* the files that differ between two filesystems
Changed(a, b) ==
    {k \in DOMAIN a \cup DOMAIN b :
        k \notin DOMAIN a \/ k \notin DOMAIN b \/ a[k] # b[k]}

\* the output directory was absent or empty when the run started
Under(k, dir) == Len(k) > Len(dir) /\ SubSeq(k, 1, Len(dir)) = dir

OutFresh ==
    /\ OutDir \notin DOMAIN start.files
    /\ \A k \in DOMAIN start.files \cup start.dirs : ~Under(k, OutDir)

Completed == pc = "done"
WriteFailed == pc = "aborted" /\ err = "OSError"

\* C1: a completed run of a document with N identified scenes prints one
\* summary line whose count is N; during the loop the collected paths number
\* the identified scenes among those already processed, the others add none.
C1_ReportsN ==
    /\ pc \in {"loop", "done"} =>
         /\ scenes = DocScenes
         /\ Len(written_paths) = NumIds(SubSeq(scenes, 1, i - 1))
    /\ Completed => stdout = <<[count |-> NumIds(DocScenes), dir |-> output_dir]>>

C1_Witness ==
    /\ Completed
    /\ NumIds(scenes) >= 1
    /\ NumIds(scenes) < Len(scenes)

\* C2 as stated: after a completed run that started with an empty or absent
\* output directory the number of scene files on disk is N, the number of
\* identified scenes, for any list, lists with repeated scene_ids included.
C2_AsStated ==
    (Completed /\ OutFresh) =>
        /\ Cardinality(SceneFiles(scenes) \cap DOMAIN files) = NumIds(scenes)
        /\ stdout[1].count = NumIds(scenes)

\* C2 amended: such a run performs N writes and reports N; every identified
\* scene's path holds a file, no other file is created, and the number of
\* scene files is the number of distinct files the paths name: at most N, and
\* N exactly when no two identified scenes name the same file.
C2_FilesAreDistinctPaths ==
    (Completed /\ OutFresh) =>
        LET list == scenes
            ids == {j \in 1..Len(list) : HasId(list[j])}
            onDisk == SceneFiles(list) \cap DOMAIN files
            clash == \E j, m \in ids : j # m /\ FileOf(list[j]).key = FileOf(list[m]).key
        IN /\ Len(written_paths) = Cardinality(ids)
           /\ stdout[1].count = Cardinality(ids)
           /\ \A j \in ids : FileOf(list[j]).ok /\ FileOf(list[j]).key \in DOMAIN files
           /\ DOMAIN files \ DOMAIN start.files \subseteq SceneFiles(list)
           /\ Cardinality(onDisk) <= Cardinality(ids)
           /\ (Cardinality(onDisk) = Cardinality(ids)) <=> ~clash

C2_Witness ==
    /\ Completed /\ OutFresh
    /\ NumIds(scenes) = 2
    /\ Cardinality(SceneFiles(scenes) \cap DOMAIN files) = 1

\* C3: a call of write_scene_file on a scene without identifier returns the
\* empty result and changes neither directories nor files; the steps of main
\* outside that call never create a directory; and when the output directory
\* did not exist at the start, after a completed run it exists if and only
\* if some scene of the list has an identifier.
C3_DirOnlyOnWrite ==
    /\ [][ (pc = "loop" /\ i <= Len(scenes) /\ ~HasId(scenes[i]))
             => (p' = <<>> /\ files' = files /\ dirs' = dirs /\ pc' = "loop") ]_vars
    /\ [][ (pc # "loop" \/ i > Len(scenes)) => dirs' = dirs ]_vars
    /\ [](( Completed /\ OutDir \notin start.dirs /\ OutDir \notin DOMAIN start.files)
             => (OutDir \in dirs <=> NumIds(scenes) >= 1))

C3_Witness ==
    /\ Completed
    /\ OutDir \notin start.dirs
    /\ Len(scenes) >= 1
    /\ NumIds(scenes) = 0
    /\ OutDir \notin dirs

\* C4: a run whose route file is missing or is not valid JSON aborts at the
\* load: no directory and no file is created or modified, write_scene_file is
\* never called and no summary line is printed.
C4_LoadFailureTouchesNothing ==
    (runs >= 1 /\ ~RouteLoads(start.files)) =>
        /\ pc = "aborted"
        /\ err = (IF HasRoute(start.files) THEN "JSONDecodeError" ELSE "FileNotFoundError")
        /\ files = start.files
        /\ dirs = start.dirs
        /\ calls = <<>>
        /\ stdout = <<>>

C4_Witness ==
    /\ runs >= 1
    /\ HasRoute(start.files)
    /\ ~RouteLoads(start.files)
    /\ OutDir \notin dirs

\* C5: when two runs in succession both complete and the second reads the
\* input the first read, the files, their contents and the reported count
\* after the second run are those after the first.
C5_Idempotent ==
    ( /\ runs >= 2
      /\ Completed
      /\ prev.pc = "done"
      /\ start.files[RouteKey] = prev.start.files[RouteKey] ) =>
        /\ files = prev.files
        /\ dirs = prev.dirs
        /\ stdout = prev.stdout

C5_Witness ==
    /\ runs >= 2
    /\ Completed
    /\ prev.pc = "done"
    /\ start.files[RouteKey] = prev.start.files[RouteKey]
    /\ Changed(prev.files, prev.start.files) # {}
    /\ stdout[1].count = 2

\* C6 as stated: when the write of the k-th scene fails, the run reports a
\* count, that of the scenes written before the failure.
C6_AsStated ==
    WriteFailed => (Len(stdout) = 1 /\ stdout[1].count = Len(written_paths))

\* C6 amended: when the write of the k-th scene fails, the run reports no
\* count at all: the exception leaves main before the summary line, so
\* nothing is printed, however many scenes were written before the failure.
C6_NoSummaryOnFailure ==
    WriteFailed =>
        /\ stdout = <<>>
        /\ Len(written_paths) = NumIds(SubSeq(scenes, 1, i - 1))

C6_Witness == WriteFailed /\ Len(written_paths) >= 1

\* the frame the failure of the k-th write (k = i) leaves, apart from what
\* is said about the files written for scenes 1..k-1
C7_Propagates ==
    /\ stdout = <<>>
    /\ Len(calls) = i
    /\ calls = SubSeq(scenes, 1, i)

\* C7 as stated: when the k-th write raises, the error leaves main uncaught,
\* no later scene is attempted, and every file written for scenes 1..k-1 is
\* on disk with the content it was given.
C7_AsStated ==
    WriteFailed =>
        /\ C7_Propagates
        /\ \A j \in 1..(i - 1) : HasId(scenes[j]) =>
             /\ FileOf(scenes[j]).ok
             /\ FileOf(scenes[j]).key \in DOMAIN files
             /\ files[FileOf(scenes[j]).key]
                  = Expected(LastFor(scenes, i - 1, FileOf(scenes[j]).key))

\* C7 amended: the same, except for the file the k-th scene itself names: a
\* failure after the open leaves that file truncated or partly written, also
\* when an earlier scene of the run had written it.
C7_NoRollback ==
    WriteFailed =>
        /\ C7_Propagates
        /\ \A j \in 1..(i - 1) : HasId(scenes[j]) =>
             LET at == FileOf(scenes[j])
                 given == Expected(LastFor(scenes, i - 1, at.key))
                 failing == Expected(scenes[i])
             IN /\ at.ok
                /\ at.key \in DOMAIN files
                /\ IF FileOf(scenes[i]).ok /\ FileOf(scenes[i]).key = at.key
                   THEN files[at.key] \in
                          {given, <<>>, SubSeq(failing, 1, Len(failing) \div 2)}
                   ELSE files[at.key] = given

C7_Witness ==
    /\ WriteFailed
    /\ i = 2
    /\ Len(written_paths) = 1
    /\ Changed(files, start.files) # {}

\* C8: right after write_scene_file returns a path, the file at that path,
\* parsed as JSON, is the scene that was passed in.
C8_RoundTrip ==
    (pc = "loop" /\ p # <<>>) =>
        LET at == Resolve(p, dirs)
        IN /\ at.ok
           /\ at.key \in DOMAIN files
           /\ JsonLoad(files[at.key]).ok
           /\ JsonLoad(files[at.key]).val = calls[Len(calls)]

C8_Witness ==
    /\ pc = "loop"
    /\ p # <<>>
    /\ calls[Len(calls)] = Scene(<<"s1">>, Tricky)

\* C9 as stated: after a completed run the writer was called once per scene
\* in list order, and for every scene_id X of the list the file at
\* <output_dir>/X.json holds the last scene of the list whose scene_id is X.
C9_AsStated ==
    Completed =>
        /\ calls = scenes
        /\ \A j \in 1..Len(scenes) : HasId(scenes[j]) =>
             /\ FileOf(scenes[j]).ok
             /\ FileOf(scenes[j]).key \in DOMAIN files
             /\ files[FileOf(scenes[j]).key]
                  = Expected(LastWithId(scenes, Len(scenes), scenes[j]))

\* C9 amended: ... the file at <output_dir>/X.json holds the last scene of
\* the list whose path names that same file: a later scene with another
\* scene_id that names the same file ("./s1" after "s1") replaces it too.
C9_LastWriteWins ==
    Completed =>
        /\ calls = scenes
        /\ \A j \in 1..Len(scenes) : HasId(scenes[j]) =>
             /\ FileOf(scenes[j]).ok
             /\ FileOf(scenes[j]).key \in DOMAIN files
             /\ files[FileOf(scenes[j]).key]
                  = Expected(LastFor(scenes, Len(scenes), FileOf(scenes[j]).key))

C9_Witness ==
    /\ Completed
    /\ Len(scenes) = 2
    /\ scenes[1] = Scene(<<"s1">>, Hello)
    /\ scenes[2] = Scene(<<"s1">>, Tricky)
    /\ Append(OutDir, <<"s1", ".json">>) \in DOMAIN start.files

\* the files a run created or modified are files that paths of identified
\* scenes passed to the writer name, and the route file was opened once
C10_Frame ==
    /\ Changed(files, start.files) \subseteq SceneFiles(calls)
    /\ reads <= 1
    /\ (pc \in {"loop", "done"} \/ WriteFailed) => reads = 1

\* C10 as stated: a run creates or modifies only files at the join of the
\* output directory with <scene_id>.json, reads the route file once and
\* leaves it unchanged, for every scene_id.
C10_AsStated ==
    runs >= 1 =>
        /\ C10_Frame
        /\ RouteKey \notin Changed(files, start.files)

\* C10 amended: ... and leaves the route file unchanged unless the path of a
\* scene passed to the writer names the route file itself (scene_id
\* "../route_gu_wan"), in which case the run overwrites its own input.
C10_FrameOfRun ==
    runs >= 1 =>
        /\ C10_Frame
        /\ RouteKey \notin SceneFiles(calls) => RouteKey \notin Changed(files, start.files)

C10_Witness ==
    /\ Completed
    /\ Len(written_paths) = 2
    /\ << <<"abs", ".json">> >> \in Changed(files, start.files)
    /\ RouteKey \notin Changed(files, start.files)

====
